---- MODULE Spec2Model ----
(***************************************************************************)
(* wasm-pack, src/bindgen.rs: installing and running the `wasm-bindgen`    *)
(* CLI.  install_wasm_bindgen tries a global binary on $PATH, then a       *)
(* prebuilt download through the binary cache, then `cargo install` into a *)
(* staging directory of the cache that is renamed to its final name.       *)
(*                                                                         *)
(* Strings are sequences of one-character strings, so that the version     *)
(* comparison and the whitespace split are computed, not assumed.          *)
(***************************************************************************)
EXTENDS Integers, Sequences, FiniteSets, TLC

(***************************************************************************)
(* Bounds of the model.                                                    *)
(***************************************************************************)
NumProcs == 2
MaxRuns == 2

Procs == 1..NumProcs

(***************************************************************************)
(* The inputs: the versions a caller may require, and what a               *)
(* `wasm-bindgen --version` found on $PATH may print.                      *)
(***************************************************************************)
VA == <<"7">>
VB == <<"7", "4">>
Versions == {VA, VB}

Stdouts ==
  { <<"w", " ", "7", "\n">>,
    <<"w", " ", "7", "4">>,
    <<" ", "w", " ", " ", "7", " ", "x">>,
    <<"7">>,
    <<>> }

\* What the binary on $PATH prints in the runs of the pipeline.
GlobalStdouts == { <<"w", " ", "7", "\n">>, <<"w", " ", "7", "4">> }

\* child::run: the captured stdout, or an error (spawn failure, non-zero exit).
RunErr == [ok |-> FALSE, stdout |-> <<>>]
RunOk(stdout) == [ok |-> TRUE, stdout |-> stdout]
ProbeOutcomes == {RunErr} \cup {RunOk(s) : s \in Stdouts}

Hosts ==
  { [os |-> "linux", x86_64 |-> TRUE],
    [os |-> "macos", x86_64 |-> TRUE],
    [os |-> "windows", x86_64 |-> TRUE],
    [os |-> "linux", x86_64 |-> FALSE] }

(***************************************************************************)
(* Directories.  A directory is absent, or maps each file name to the run  *)
(* that wrote it (NoFile when the file is not there).  A run is named by   *)
(* its process and its number; Earlier names an attempt made before the    *)
(* first state of the model.                                               *)
(***************************************************************************)
NoFile == <<>>
Earlier == <<0, 0>>

\* The binaries `cargo install wasm-bindgen-cli` writes, in the order it writes
\* them, and a leftover of an install that was cut short.
InstallFiles == <<"wasm-bindgen", "wasm-bindgen-test-runner">>
JunkFile == "cargo-install-leftover"
Files == {InstallFiles[i] : i \in 1..Len(InstallFiles)} \cup {JunkFile}

NoFiles == [f \in Files |-> NoFile]
NoDir == [exists |-> FALSE, files |-> NoFiles]
EmptyDir == [exists |-> TRUE, files |-> NoFiles]

\* What a completed `cargo install` of run `by` leaves in an empty directory.
Installed(by) ==
  [exists |-> TRUE, files |-> [f \in Files |-> IF f = JunkFile THEN NoFile ELSE by]]

IsEmptyDir(d) == d.exists /\ d.files = NoFiles

\* A directory holds everything a completed `cargo install` produces.
Complete(d) ==
  d.exists /\ \A i \in 1..Len(InstallFiles) : d.files[InstallFiles[i]] # NoFile

(***************************************************************************)
(* Paths.                                                                  *)
(***************************************************************************)
GlobalBin == <<"path", "bin", "wasm-bindgen">>

\* path.parent().unwrap()
Parent(path) == SubSeq(path, 1, Len(path) - 1)

\* format!("wasm-bindgen-cargo-install-{}", version)
Dirname(version) == <<"wasm-bindgen-cargo-install-">> \o version

\* cache.join(dirname)
Destination(version) == <<"cache">> \o Dirname(version)

\* cache.join(format!(".{}", dirname))
Tmp(version) == <<"cache", ".">> \o Dirname(version)

(***************************************************************************)
(* prebuilt_url: the release tarball of this host, if it has one.          *)
(***************************************************************************)
NoUrl == <<>>
NoTarget == ""

\* prebuilt_url with the Linux tarball for every host it does not know.
prebuilt_url_AnyHost(h, version) ==
  LET target ==
        IF h.os = "macos" /\ h.x86_64 THEN "x86_64-apple-darwin"
        ELSE IF h.os = "windows" /\ h.x86_64 THEN "x86_64-pc-windows-msvc"
        ELSE "x86_64-unknown-linux-musl"
  IN <<"https://github.com/rustwasm/wasm-bindgen/releases/download/">>
       \o version \o <<"/wasm-bindgen-">> \o version \o <<"-", target, ".tar.gz">>

prebuilt_url(h, version) ==
  LET target ==
        IF h.os = "linux" /\ h.x86_64 THEN "x86_64-unknown-linux-musl"
        ELSE IF h.os = "macos" /\ h.x86_64 THEN "x86_64-apple-darwin"
        ELSE IF h.os = "windows" /\ h.x86_64 THEN "x86_64-pc-windows-msvc"
        ELSE NoTarget
  IN IF target = NoTarget
       THEN NoUrl
       ELSE <<"https://github.com/rustwasm/wasm-bindgen/releases/download/">>
              \o version \o <<"/wasm-bindgen-">> \o version \o <<"-", target, ".tar.gz">>

Urls == {prebuilt_url(h, v) : h \in Hosts, v \in Versions} \ {NoUrl}

\* The directory of the cache a download of url is extracted to.
DownloadDir(url) == <<"cache", "wasm-bindgen-">> \o url

CachePaths ==
  {Destination(v) : v \in Versions} \cup {Tmp(v) : v \in Versions}
    \cup {DownloadDir(u) : u \in Urls}

(***************************************************************************)
(* wasm_bindgen_version_check: the second whitespace-separated token of    *)
(* what `wasm-bindgen --version` printed is the wanted version.            *)
(***************************************************************************)
IsWhitespace(c) == c \in {" ", "\n", "\t"}

RECURSIVE trim_start(_)
trim_start(s) ==
  IF s # <<>> /\ IsWhitespace(Head(s)) THEN trim_start(Tail(s)) ELSE s

RECURSIVE trim_end(_)
trim_end(s) ==
  IF s # <<>> /\ IsWhitespace(s[Len(s)])
    THEN trim_end(SubSeq(s, 1, Len(s) - 1))
    ELSE s

trim(s) == trim_end(trim_start(s))

\* The tokens of s; cur is the token being read.
RECURSIVE split_from(_, _)
split_from(s, cur) ==
  IF s = <<>>
    THEN IF cur = <<>> THEN <<>> ELSE <<cur>>
    ELSE IF IsWhitespace(Head(s))
           THEN IF cur = <<>>
                  THEN split_from(Tail(s), <<>>)
                  ELSE <<cur>> \o split_from(Tail(s), <<>>)
           ELSE split_from(Tail(s), Append(cur, Head(s)))

split_whitespace(s) == split_from(s, <<>>)

\* wasm_bindgen_version_check with .nth(0) in the place of .nth(1).
wasm_bindgen_version_check_FirstToken(ran, dep_version) ==
  IF ran.ok
    THEN LET tokens == split_whitespace(trim(ran.stdout))
         IN IF Len(tokens) >= 1 THEN tokens[1] = dep_version ELSE FALSE
    ELSE FALSE

wasm_bindgen_version_check(ran, dep_version) ==
  IF ran.ok
    THEN LET tokens == split_whitespace(trim(ran.stdout))
         IN IF Len(tokens) >= 2 THEN tokens[2] = dep_version ELSE FALSE
    ELSE FALSE

(***************************************************************************)
(* Results.  Download::at(root), or an error.  `via` records the return    *)
(* statement that produced the result.                                     *)
(***************************************************************************)
NoPath == <<>>
NoResult == [kind |-> "none", root |-> NoPath, via |-> "none"]
Ok(root, via) == [kind |-> "ok", root |-> root, via |-> via]
Err(via) == [kind |-> "err", root |-> NoPath, via |-> via]

\* bail!("wasm-bindgen v{} is not installed!", version) of cargo_install_wasm_bindgen
NotInstalled == "not-installed"
\* .context("Installing wasm-bindgen with cargo")
CargoFailed == "cargo-install-failed"
\* the `?` on fs::create_dir_all and on fs::rename
CreateFailed == "create-dir-failed"
RenameFailed == "rename-failed"
Interrupted == "interrupted"

VARIABLES
  host,               \* the platform the program was built for
  which_found,        \* which("wasm-bindgen") finds a binary on $PATH
  probe,              \* what running that binary with --version gives
  fs,                 \* the directories of the cache
  pc,                 \* where each process is
  version,            \* the arguments of the run
  install_permitted,
  result,             \* what the run returned
  trace,              \* the calls the run made, in order
  run,                \* the number of the run of each process
  written,            \* how many files the cargo of the run has written
  local_at_start,     \* the destination existed when the run started
  fs_at_start,        \* the directories of the cache when the run started
  prev,               \* the arguments and result of the run before
  check,              \* a call of wasm_bindgen_version_check on its own
  build               \* a call of wasm_bindgen_build

vars ==
  << host, which_found, probe, fs, pc, version, install_permitted, result,
     trace, run, written, local_at_start, fs_at_start, prev, check, build >>

\* What no step of install_wasm_bindgen changes: the host, the binary on
\* $PATH, and the calls of the other functions.
env == << host, which_found, probe, check, build >>

Owner(p) == <<p, run[p]>>

NoPrev == [version |-> <<>>, install_permitted |-> FALSE, result |-> NoResult]

\* No call of wasm_bindgen_version_check or of wasm_bindgen_build is under way.
NoCheck == [pc |-> "idle", ran |-> RunErr, dep_version |-> <<>>, result |-> FALSE]

NoCmd == [program |-> NoPath, args |-> <<>>]
NoBuild ==
  [pc |-> "idle", root |-> NoPath, has_binary |-> FALSE, out_dir |-> "",
   disable_dts |-> FALSE, target |-> "", debug |-> FALSE, cmd |-> NoCmd,
   calls |-> <<>>, started |-> FALSE, result |-> NoResult]

(***************************************************************************)
(* The directories the cache may hold before the first run: a destination  *)
(* of version VA installed earlier, and a staging directory of VA left by  *)
(* an install that was cut short.                                          *)
(***************************************************************************)
StaleDir ==
  [exists |-> TRUE,
   files |-> [f \in Files |->
                IF f \in {JunkFile, InstallFiles[1]} THEN Earlier ELSE NoFile]]

InitFs ==
  { [path \in CachePaths |->
       IF path = Destination(VA) THEN d
       ELSE IF path = Tmp(VA) THEN t
       ELSE NoDir] : d \in {NoDir, Installed(Earlier)}, t \in {NoDir, StaleDir} }

Init ==
  /\ host \in Hosts
  /\ which_found \in BOOLEAN
  /\ probe \in IF which_found
                 THEN {RunErr} \cup {RunOk(s) : s \in GlobalStdouts}
                 ELSE {RunErr}
  /\ fs \in InitFs
  /\ pc = [p \in Procs |-> "idle"]
  /\ version = [p \in Procs |-> VA]
  /\ install_permitted = [p \in Procs |-> FALSE]
  /\ result = [p \in Procs |-> NoResult]
  /\ trace = [p \in Procs |-> <<>>]
  /\ run = [p \in Procs |-> 0]
  /\ written = [p \in Procs |-> 0]
  /\ local_at_start = [p \in Procs |-> FALSE]
  /\ fs_at_start = [p \in Procs |-> fs]
  /\ prev = [p \in Procs |-> NoPrev]
  /\ check = NoCheck
  /\ build = NoBuild

(***************************************************************************)
(* Steps of a run.                                                         *)
(***************************************************************************)
Goto(p, label) == pc' = [pc EXCEPT ![p] = label]
Call(p, calls) == trace' = [trace EXCEPT ![p] = @ \o calls]
Return(p, r) ==
  /\ pc' = [pc EXCEPT ![p] = "done"]
  /\ result' = [result EXCEPT ![p] = r]

\* A run begins: install_wasm_bindgen(cache, v, permitted, ..) is called.
Begin(p, v, permitted, entry) ==
  /\ pc[p] \in {"idle", "done", "killed"}
  /\ run[p] < MaxRuns
  /\ run' = [run EXCEPT ![p] = @ + 1]
  /\ prev' = [prev EXCEPT ![p] =
                [version |-> version[p], install_permitted |-> install_permitted[p],
                 result |-> result[p]]]
  /\ version' = [version EXCEPT ![p] = v]
  /\ install_permitted' = [install_permitted EXCEPT ![p] = permitted]
  /\ result' = [result EXCEPT ![p] = NoResult]
  /\ trace' = [trace EXCEPT ![p] = <<>>]
  /\ written' = [written EXCEPT ![p] = 0]
  /\ local_at_start' = [local_at_start EXCEPT ![p] = fs[Destination(v)].exists]
  /\ fs_at_start' = [fs_at_start EXCEPT ![p] = fs]
  /\ pc' = [pc EXCEPT ![p] = entry]
  /\ UNCHANGED << env, fs >>

install_wasm_bindgen(p) ==
  \E v \in Versions, permitted \in BOOLEAN : Begin(p, v, permitted, "which")

\* which("wasm-bindgen"), and wasm_bindgen_version_check on what it found.
GlobalMatches(p) ==
  which_found /\ wasm_bindgen_version_check(probe, version[p])

GlobalReuse(p) ==
  /\ pc[p] = "which"
  /\ Call(p, <<"which">>)
  /\ IF which_found THEN Goto(p, "probe") ELSE Goto(p, "prebuilt")
  /\ UNCHANGED << env, fs, version, install_permitted, result, run, written,
                  local_at_start, fs_at_start, prev >>

\* VersionCheck without the return on a match.
VersionCheck_NoReturn(p) ==
  /\ pc[p] = "probe"
  /\ Call(p, <<"wasm-bindgen --version">>)
  /\ Goto(p, "prebuilt")
  /\ UNCHANGED << env, fs, version, install_permitted, result, run, written,
                  local_at_start, fs_at_start, prev >>

\* VersionCheck with a version that does not match made an error of the run.
VersionCheck_Fatal(p) ==
  /\ pc[p] = "probe"
  /\ Call(p, <<"wasm-bindgen --version">>)
  /\ IF GlobalMatches(p)
       THEN Return(p, Ok(Parent(GlobalBin), "global"))
       ELSE Return(p, Err("version-mismatch"))
  /\ UNCHANGED << env, fs, version, install_permitted, run, written,
                  local_at_start, fs_at_start, prev >>

\* VersionCheck with the matching global install copied into the cache.
VersionCheck_Caches(p) ==
  /\ pc[p] = "probe"
  /\ Call(p, <<"wasm-bindgen --version">>)
  /\ IF GlobalMatches(p)
       THEN /\ Return(p, Ok(Parent(GlobalBin), "global"))
            /\ fs' = [fs EXCEPT ![Destination(version[p])] = Installed(Owner(p))]
       ELSE /\ Goto(p, "prebuilt")
            /\ UNCHANGED << result, fs >>
  /\ UNCHANGED << env, version, install_permitted, run, written,
                  local_at_start, fs_at_start, prev >>

\* if wasm_bindgen_version_check(&path, version, log) { return Ok(..) }
VersionCheck(p) ==
  /\ pc[p] = "probe"
  /\ Call(p, <<"wasm-bindgen --version">>)
  /\ IF GlobalMatches(p)
       THEN Return(p, Ok(Parent(GlobalBin), "global"))
       ELSE /\ Goto(p, "prebuilt")
            /\ UNCHANGED result
  /\ UNCHANGED << env, fs, version, install_permitted, run, written,
                  local_at_start, fs_at_start, prev >>

(***************************************************************************)
(* Cache::download of wasm_pack_binary_install: the outcomes of a call.    *)
(* An extracted download is reused; without permission nothing is fetched; *)
(* otherwise the tarball is fetched, which may fail.                       *)
(***************************************************************************)
cache_download(files, permitted, url, by) ==
  LET dir == DownloadDir(url)
  IN IF files[dir].exists
       THEN { [ret |-> "some", network |-> FALSE, fs |-> files] }
       ELSE IF ~permitted
              THEN { [ret |-> "none", network |-> FALSE, fs |-> files] }
              ELSE { [ret |-> "some", network |-> TRUE,
                      fs |-> [files EXCEPT ![dir] = Installed(by)]],
                     [ret |-> "err", network |-> TRUE, fs |-> files] }

\* download_prebuilt_wasm_bindgen with its error returned to the caller (a ? in
\* the place of the match).
download_prebuilt_Propagates(p) ==
  /\ pc[p] = "prebuilt"
  /\ LET url == prebuilt_url(host, version[p])
     IN IF url = NoUrl
          THEN /\ Call(p, <<"prebuilt_url">>)
               /\ Return(p, Err("no-prebuilt-binaries"))
               /\ UNCHANGED fs
          ELSE \E o \in cache_download(fs, install_permitted[p], url, Owner(p)) :
                 /\ Call(p, <<"prebuilt_url", "cache.download">>
                              \o (IF o.network THEN <<"network">> ELSE <<>>)
                              \o (IF o.ret = "some" THEN <<"downloaded">> ELSE <<>>))
                 /\ fs' = o.fs
                 /\ IF o.ret = "some"
                      THEN Return(p, Ok(DownloadDir(url), "download"))
                      ELSE Return(p, Err("download-failed"))
  /\ UNCHANGED << env, version, install_permitted, run, written,
                  local_at_start, fs_at_start, prev >>

\* download_prebuilt_wasm_bindgen, and the match on its result.
download_prebuilt_wasm_bindgen(p) ==
  /\ pc[p] = "prebuilt"
  /\ LET url == prebuilt_url(host, version[p])
     IN IF url = NoUrl
          THEN /\ Call(p, <<"prebuilt_url">>)
               /\ Goto(p, "cargo_install")
               /\ UNCHANGED << fs, result >>
          ELSE \E o \in cache_download(fs, install_permitted[p], url, Owner(p)) :
                 /\ Call(p, <<"prebuilt_url", "cache.download">>
                              \o (IF o.network THEN <<"network">> ELSE <<>>)
                              \o (IF o.ret = "some" THEN <<"downloaded">> ELSE <<>>))
                 /\ fs' = o.fs
                 /\ IF o.ret = "some"
                      THEN Return(p, Ok(DownloadDir(url), "download"))
                      ELSE /\ Goto(p, "cargo_install")
                           /\ UNCHANGED result
  /\ UNCHANGED << env, version, install_permitted, run, written,
                  local_at_start, fs_at_start, prev >>

(***************************************************************************)
(* cargo_install_wasm_bindgen.                                             *)
(***************************************************************************)
\* A process calls the public function itself, once.
call_cargo_install(p) ==
  /\ pc[p] = "idle"
  /\ \E v \in Versions, permitted \in BOOLEAN : Begin(p, v, permitted, "cargo_install")

\* cargo_install_wasm_bindgen without the bail! on install_permitted.
cargo_install_NoPermissionCheck(p) ==
  /\ pc[p] = "cargo_install"
  /\ Call(p, <<"destination.exists">>)
  /\ IF fs[Destination(version[p])].exists
       THEN Return(p, Ok(Destination(version[p]), "cached"))
       ELSE /\ Goto(p, "remove_tmp")
            /\ UNCHANGED result
  /\ UNCHANGED << env, fs, version, install_permitted, run, written,
                  local_at_start, fs_at_start, prev >>

\* cargo_install_wasm_bindgen with the staging directory cleared before the
\* bail! on install_permitted.
cargo_install_ClearsBeforeBail(p) ==
  /\ pc[p] = "cargo_install"
  /\ IF fs[Destination(version[p])].exists
       THEN /\ Call(p, <<"destination.exists">>)
            /\ Return(p, Ok(Destination(version[p]), "cached"))
            /\ UNCHANGED fs
       ELSE /\ Call(p, <<"destination.exists", "remove_dir_all">>)
            /\ fs' = [fs EXCEPT ![Tmp(version[p])] = NoDir]
            /\ IF ~install_permitted[p]
                 THEN Return(p, Err(NotInstalled))
                 ELSE /\ Goto(p, "create_tmp")
                      /\ UNCHANGED result
  /\ UNCHANGED << env, version, install_permitted, run, written,
                  local_at_start, fs_at_start, prev >>

\* if destination.exists() { return .. }  if !install_permitted { bail!(..) }
cargo_install_wasm_bindgen(p) ==
  /\ pc[p] = "cargo_install"
  /\ Call(p, <<"destination.exists">>)
  /\ IF fs[Destination(version[p])].exists
       THEN Return(p, Ok(Destination(version[p]), "cached"))
       ELSE IF ~install_permitted[p]
              THEN Return(p, Err(NotInstalled))
              ELSE /\ Goto(p, "remove_tmp")
                   /\ UNCHANGED result
  /\ UNCHANGED << env, fs, version, install_permitted, run, written,
                  local_at_start, fs_at_start, prev >>

\* drop(fs::remove_dir_all(&tmp)): the directory goes, or the call fails and
\* its error is dropped.
remove_dir_all(p) ==
  /\ pc[p] = "remove_tmp"
  /\ Call(p, <<"remove_dir_all">>)
  /\ \/ fs' = [fs EXCEPT ![Tmp(version[p])] = NoDir]
     \/ /\ fs[Tmp(version[p])].exists
        /\ UNCHANGED fs
  /\ Goto(p, "create_tmp")
  /\ UNCHANGED << env, version, install_permitted, result, run, written,
                  local_at_start, fs_at_start, prev >>

\* fs::create_dir_all(&tmp)?
create_dir_all(p) ==
  /\ pc[p] = "create_tmp"
  /\ \/ /\ fs' = [fs EXCEPT ![Tmp(version[p])] =
                    IF @.exists THEN @ ELSE EmptyDir]
        /\ Call(p, <<"create_dir_all">>)
        /\ Goto(p, "spawn")
        /\ UNCHANGED result
     \/ /\ ~fs[Tmp(version[p])].exists
        /\ Call(p, <<"create_dir_all", "io error">>)
        /\ Return(p, Err(CreateFailed))
        /\ UNCHANGED fs
  /\ UNCHANGED << env, version, install_permitted, run, written,
                  local_at_start, fs_at_start, prev >>

\* child::run(logger, cmd, "cargo install"): cargo starts.
cargo_spawn(p) ==
  /\ pc[p] = "spawn"
  /\ Call(p, <<"cargo install">>)
  /\ Goto(p, "cargo")
  /\ UNCHANGED << env, fs, version, install_permitted, result, run, written,
                  local_at_start, fs_at_start, prev >>

\* cargo_write with the destination given to cargo as its --root.
cargo_write_IntoDestination(p) ==
  /\ pc[p] = "cargo"
  /\ written[p] < Len(InstallFiles)
  /\ written[p] = 0 \/ fs[Destination(version[p])].exists
  /\ written' = [written EXCEPT ![p] = @ + 1]
  /\ fs' = [fs EXCEPT ![Destination(version[p])] =
              [exists |-> TRUE,
               files |-> [@.files EXCEPT ![InstallFiles[written[p] + 1]] = Owner(p)]]]
  /\ UNCHANGED << env, pc, version, install_permitted, result, trace, run,
                  local_at_start, fs_at_start, prev >>

\* cargo install --force --root tmp writes its next binary, over what is
\* there.  It makes the directory if that is gone when it starts to write; a
\* directory gone later leaves it nothing but to fail.
cargo_write(p) ==
  /\ pc[p] = "cargo"
  /\ written[p] < Len(InstallFiles)
  /\ written[p] = 0 \/ fs[Tmp(version[p])].exists
  /\ written' = [written EXCEPT ![p] = @ + 1]
  /\ fs' = [fs EXCEPT ![Tmp(version[p])] =
              [exists |-> TRUE,
               files |-> [@.files EXCEPT ![InstallFiles[written[p] + 1]] = Owner(p)]]]
  /\ UNCHANGED << env, pc, version, install_permitted, result, trace, run,
                  local_at_start, fs_at_start, prev >>

\* cargo exits with success: child::run returns Ok.
cargo_exit(p) ==
  /\ pc[p] = "cargo"
  /\ written[p] = Len(InstallFiles)
  /\ Goto(p, "rename")
  /\ UNCHANGED << env, fs, version, install_permitted, result, trace, run,
                  written, local_at_start, fs_at_start, prev >>

\* cargo_fail with the error of child::run dropped: the run goes on to the rename.
cargo_fail_Ignored(p) ==
  /\ pc[p] = "cargo"
  /\ Call(p, <<"cargo install failed">>)
  /\ Goto(p, "rename")
  /\ UNCHANGED << env, fs, version, install_permitted, result, run, written,
                  local_at_start, fs_at_start, prev >>

\* cargo fails: child::run(..).context("Installing wasm-bindgen with cargo")?
cargo_fail(p) ==
  /\ pc[p] = "cargo"
  /\ Call(p, <<"cargo install failed">>)
  /\ Return(p, Err(CargoFailed))
  /\ UNCHANGED << env, fs, version, install_permitted, run, written,
                  local_at_start, fs_at_start, prev >>

\* fs::rename(from, to) of a directory: to must be absent, or an empty
\* directory on a host that is not Windows.
CanRename(files, from, to) ==
  /\ files[from].exists
  /\ \/ ~files[to].exists
     \/ IsEmptyDir(files[to]) /\ host.os # "windows"

\* fs::rename(&tmp, &destination)?; Ok(Download::at(&destination))
\* The rename fails when the directories do not allow it, and may fail for a
\* reason of its own (an i/o error).
\* rename without the `?`: the error of fs::rename is dropped and the
\* destination returned all the same.
rename_ErrorIgnored(p) ==
  /\ pc[p] = "rename"
  /\ LET tmp == Tmp(version[p])
         destination == Destination(version[p])
     IN \/ /\ CanRename(fs, tmp, destination)
           /\ Call(p, <<"rename">>)
           /\ fs' = [fs EXCEPT ![destination] = fs[tmp], ![tmp] = NoDir]
           /\ Return(p, Ok(destination, "installed"))
        \/ /\ Call(p, <<"rename", "io error">>)
           /\ Return(p, Ok(destination, "installed"))
           /\ UNCHANGED fs
  /\ UNCHANGED << env, version, install_permitted, run, written,
                  local_at_start, fs_at_start, prev >>

rename(p) ==
  /\ pc[p] = "rename"
  /\ LET tmp == Tmp(version[p])
         destination == Destination(version[p])
     IN \/ /\ CanRename(fs, tmp, destination)
           /\ Call(p, <<"rename">>)
           /\ fs' = [fs EXCEPT ![destination] = fs[tmp], ![tmp] = NoDir]
           /\ Return(p, Ok(destination, "installed"))
        \/ /\ ~CanRename(fs, tmp, destination)
           /\ Call(p, <<"rename">>)
           /\ Return(p, Err(RenameFailed))
           /\ UNCHANGED fs
        \/ /\ CanRename(fs, tmp, destination)
           /\ Call(p, <<"rename", "io error">>)
           /\ Return(p, Err(RenameFailed))
           /\ UNCHANGED fs
  /\ UNCHANGED << env, version, install_permitted, run, written,
                  local_at_start, fs_at_start, prev >>

\* The process is interrupted (ctrl-c), and its cargo with it.
Killed == [kind |-> "killed", root |-> NoPath, via |-> Interrupted]

interrupt(p) ==
  /\ pc[p] \notin {"idle", "done", "killed"}
  /\ pc' = [pc EXCEPT ![p] = "killed"]
  /\ result' = [result EXCEPT ![p] = Killed]
  /\ UNCHANGED << env, fs, version, install_permitted, trace, run, written,
                  local_at_start, fs_at_start, prev >>

(***************************************************************************)
(* Spec: runs of install_wasm_bindgen, one after another, any of which may *)
(* be interrupted.                                                         *)
(***************************************************************************)
Main == 1

Next ==
  \/ install_wasm_bindgen(Main)
  \/ GlobalReuse(Main)
  \/ VersionCheck(Main)
  \/ download_prebuilt_wasm_bindgen(Main)
  \/ cargo_install_wasm_bindgen(Main)
  \/ remove_dir_all(Main)
  \/ create_dir_all(Main)
  \/ cargo_spawn(Main)
  \/ cargo_write(Main)
  \/ cargo_exit(Main)
  \/ cargo_fail(Main)
  \/ rename(Main)
  \/ interrupt(Main)

Spec == Init /\ [][Next]_vars

(***************************************************************************)
(* SpecLive: runs of install_wasm_bindgen that nothing interrupts and whose *)
(* calls (which, the probe, the download, the file operations, cargo) all  *)
(* return: a step of a run that can be taken is taken in the end.          *)
(***************************************************************************)
RunStep(p) ==
  \/ GlobalReuse(p)
  \/ VersionCheck(p)
  \/ download_prebuilt_wasm_bindgen(p)
  \/ cargo_install_wasm_bindgen(p)
  \/ remove_dir_all(p)
  \/ create_dir_all(p)
  \/ cargo_spawn(p)
  \/ cargo_write(p)
  \/ cargo_exit(p)
  \/ cargo_fail(p)
  \/ rename(p)

NextLive ==
  \/ install_wasm_bindgen(Main)
  \/ RunStep(Main)

SpecLive == Init /\ [][NextLive]_vars /\ WF_vars(RunStep(Main))

(***************************************************************************)
(* SpecCargo: processes that call cargo_install_wasm_bindgen on the same   *)
(* cache at the same time.                                                 *)
(***************************************************************************)
NextCargo ==
  \E p \in Procs :
    \/ call_cargo_install(p)
    \/ cargo_install_wasm_bindgen(p)
    \/ remove_dir_all(p)
    \/ create_dir_all(p)
    \/ cargo_spawn(p)
    \/ cargo_write(p)
    \/ cargo_exit(p)
    \/ cargo_fail(p)
    \/ rename(p)

\* cargo_install_wasm_bindgen looks at no binary on $PATH, and sees of the
\* host only whether fs::rename is that of Windows.
InitCargo ==
  /\ Init
  /\ ~which_found
  /\ host \in {h \in Hosts : h.x86_64 /\ h.os \in {"linux", "windows"}}

SpecCargo == InitCargo /\ [][NextCargo]_vars

(***************************************************************************)
(* wasm_bindgen_build: the command line of wasm-bindgen, and its run.      *)
(***************************************************************************)
\* No run of install_wasm_bindgen is under way, and the cache is empty.
pipeline ==
  << host, which_found, probe, fs, pc, version, install_permitted, result,
     trace, run, written, local_at_start, fs_at_start, prev >>

InitIdle ==
  /\ host = [os |-> "linux", x86_64 |-> TRUE]
  /\ which_found = FALSE
  /\ probe = RunErr
  /\ fs = [path \in CachePaths |-> NoDir]
  /\ pc = [p \in Procs |-> "idle"]
  /\ version = [p \in Procs |-> VA]
  /\ install_permitted = [p \in Procs |-> FALSE]
  /\ result = [p \in Procs |-> NoResult]
  /\ trace = [p \in Procs |-> <<>>]
  /\ run = [p \in Procs |-> 0]
  /\ written = [p \in Procs |-> 0]
  /\ local_at_start = [p \in Procs |-> FALSE]
  /\ fs_at_start = [p \in Procs |-> fs]
  /\ prev = [p \in Procs |-> NoPrev]

\* The target strings a caller may pass, and the output directories.
Targets == {"nodejs", "no-modules", "browser", "bundler", "NodeJS", ""}
OutDirs == {"pkg", "--nodejs"}
Roots == {Parent(GlobalBin), Destination(VA)}

\* .context("Running the wasm-bindgen CLI")
RunningCli == "running-wasm-bindgen-failed"

\* data.target_directory().join("wasm32-unknown-unknown")
\*     .join(release_or_debug).join(data.crate_name()).with_extension("wasm")
wasm_path(debug) ==
  IF debug THEN "target/wasm32-unknown-unknown/debug/crate.wasm"
           ELSE "target/wasm32-unknown-unknown/release/crate.wasm"

dts_arg(disable_dts) == IF disable_dts THEN "--no-typescript" ELSE "--typescript"

\* target_arg with the no-modules arm of the match left out.
target_arg_NoModulesArmMissing(target) ==
  IF target = "nodejs" THEN "--nodejs" ELSE "--browser"

target_arg(target) ==
  IF target = "nodejs" THEN "--nodejs"
  ELSE IF target = "no-modules" THEN "--no-modules"
  ELSE "--browser"

\* bindgen.binary("wasm-bindgen"): a path, handed to Command::new as it is.
binary(root, name) == root \o <<name>>

\* The arguments of the command, in the order of the .arg calls.
build_args(out_dir, disable_dts, target, debug) ==
  << wasm_path(debug), "--out-dir", out_dir, dts_arg(disable_dts), target_arg(target) >>
    \o (IF debug THEN <<"--debug">> ELSE <<>>)

InitBuild ==
  /\ InitIdle
  /\ check = NoCheck
  /\ build \in { [NoBuild EXCEPT !.root = r, !.has_binary = h, !.out_dir = o,
                                  !.disable_dts = d, !.target = t, !.debug = g] :
                    r \in Roots, h \in BOOLEAN, o \in OutDirs, d \in BOOLEAN,
                    t \in Targets, g \in BOOLEAN }

\* Lines 152-186: the command is built.
wasm_bindgen_build ==
  /\ build.pc = "idle"
  /\ build' = [build EXCEPT
                 !.pc = "run",
                 !.cmd = [program |-> binary(build.root, "wasm-bindgen"),
                          args |-> build_args(build.out_dir, build.disable_dts,
                                              build.target, build.debug)]]
  /\ UNCHANGED << pipeline, check >>

\* child::run of the command: with no binary at the path of the program no
\* process starts and the spawn is the error; a process that starts ends with
\* success, or with a failure that is the error.
child_run(has_binary) ==
  IF has_binary
    THEN { [started |-> TRUE, ok |-> TRUE], [started |-> TRUE, ok |-> FALSE] }
    ELSE { [started |-> FALSE, ok |-> FALSE] }

\* wasm_bindgen_run with the error of child::run dropped.
wasm_bindgen_run_ErrorDropped ==
  /\ build.pc = "run"
  /\ \E o \in child_run(build.has_binary) :
       build' = [build EXCEPT
                   !.pc = "done",
                   !.calls = Append(@, "child::run"),
                   !.started = o.started,
                   !.result = Ok(NoPath, "unit")]
  /\ UNCHANGED << pipeline, check >>

\* child::run(log, cmd, "wasm-bindgen").context("Running the wasm-bindgen CLI")?;
\* Ok(())
wasm_bindgen_run ==
  /\ build.pc = "run"
  /\ \E o \in child_run(build.has_binary) :
       build' = [build EXCEPT
                   !.pc = "done",
                   !.calls = Append(@, "child::run"),
                   !.started = o.started,
                   !.result = IF o.ok THEN Ok(NoPath, "unit") ELSE Err(RunningCli)]
  /\ UNCHANGED << pipeline, check >>

NextBuild == wasm_bindgen_build \/ wasm_bindgen_run

SpecBuild == InitBuild /\ [][NextBuild]_vars

(***************************************************************************)
(* SpecProbe: wasm_bindgen_version_check called on every short output.     *)
(***************************************************************************)
MaxStdoutLen == 4

Chars == {"w", "7", "4", " ", "\n", "\t"}
BoundedStdouts == UNION {[1..n -> Chars] : n \in 0..MaxStdoutLen}

InitProbe ==
  /\ InitIdle
  /\ build = NoBuild
  /\ check \in { [NoCheck EXCEPT !.ran = r, !.dep_version = v] :
                    r \in ProbeOutcomes \cup {RunOk(s) : s \in BoundedStdouts},
                    v \in Versions }

version_check_call ==
  /\ check.pc = "idle"
  /\ check' = [check EXCEPT
                 !.pc = "done",
                 !.result = wasm_bindgen_version_check(check.ran, check.dep_version)]
  /\ UNCHANGED << pipeline, build >>

NextProbe == version_check_call

SpecProbe == InitProbe /\ [][NextProbe]_vars

TypeOK ==
  /\ host \in Hosts
  /\ \A p \in Procs : pc[p] \in {"idle", "which", "probe", "prebuilt", "cargo_install",
                                 "remove_tmp", "create_tmp", "spawn", "cargo",
                                 "rename", "done", "killed"}
  /\ \A p \in Procs : written[p] \in 0..Len(InstallFiles)
  /\ \A p \in Procs : run[p] \in 0..MaxRuns

(***************************************************************************)
(* What the claims speak of.                                               *)
(***************************************************************************)
Contains(calls, c) == \E i \in 1..Len(calls) : calls[i] = c

IsPrefix(s, t) == Len(s) <= Len(t) /\ s = SubSeq(t, 1, Len(s))

\* The first call of each strategy, in the order the run made them.
IsStrategyCall(c) == c \in {"which", "prebuilt_url", "destination.exists"}
StrategyCalls(p) == SelectSeq(trace[p], IsStrategyCall)
StrategyOrder == <<"which", "prebuilt_url", "destination.exists">>

\* The version probe of the run ran and found the wanted version.
Probed(p) == Contains(trace[p], "wasm-bindgen --version")
ProbeMatched(p) == Probed(p) /\ wasm_bindgen_version_check(probe, version[p])

Finished(p) == pc[p] = "done"

\* C1: the strategies of a run are attempted in the order global reuse,
\* prebuilt download, source install; the download is attempted only when the
\* global binary did not match, the source install only when the download gave
\* nothing; and a run returns at the first strategy that succeeds: a matching
\* global binary means no download and no cargo, a download means no cargo.
C1_StrategyOrder ==
  \A p \in Procs :
    /\ IsPrefix(StrategyCalls(p), StrategyOrder)
    /\ Contains(trace[p], "prebuilt_url") => ~ProbeMatched(p)
    /\ Contains(trace[p], "destination.exists") => ~Contains(trace[p], "downloaded")
    /\ ProbeMatched(p) =>
         /\ Finished(p)
         /\ result[p] = Ok(Parent(GlobalBin), "global")
         /\ trace[p] = <<"which", "wasm-bindgen --version">>
    /\ Contains(trace[p], "downloaded") =>
         /\ Finished(p)
         /\ result[p] = Ok(DownloadDir(prebuilt_url(host, version[p])), "download")
         /\ ~Contains(trace[p], "destination.exists")
         /\ ~Contains(trace[p], "cargo install")
    /\ (Finished(p) /\ result[p].kind = "ok" /\ StrategyCalls(p) = StrategyOrder) =>
         result[p].root = Destination(version[p])

\* A run whose global binary did not match returned the download.
C1_Witness ==
  /\ Finished(Main)
  /\ Probed(Main)
  /\ result[Main].via = "download"
  /\ Contains(trace[Main], "network")

\* C2: with a local install of the wanted version in the cache and a global
\* wasm-bindgen of that version on $PATH, the local install is looked at first
\* and it is the one returned.
C2_LocalPreferred ==
  \A p \in Procs :
    (local_at_start[p] /\ GlobalMatches(p) /\ trace[p] # <<>>) =>
      /\ trace[p][1] = "destination.exists"
      /\ Finished(p) => result[p].root = Destination(version[p])

\* C3: when the global binary is there and its probe fails or gives another
\* version, the run neither returns the global directory nor fails there: it
\* goes on to download_prebuilt_wasm_bindgen.
C3_MismatchFallsThrough ==
  \A p \in Procs :
    (Probed(p) /\ ~wasm_bindgen_version_check(probe, version[p])) =>
      /\ result[p].root # Parent(GlobalBin)
      /\ result[p].via # "global"
      /\ \/ pc[p] = "prebuilt" /\ result[p] = NoResult
         \/ Contains(trace[p], "prebuilt_url")
         \/ pc[p] = "killed" /\ trace[p] = <<"which", "wasm-bindgen --version">>

\* A run whose probe printed another version went on to the download.
C3_Witness ==
  /\ Probed(Main)
  /\ probe.ok
  /\ ~wasm_bindgen_version_check(probe, version[Main])
  /\ Contains(trace[Main], "cache.download")

\* The platforms the specification names as supported: 64-bit Linux, macOS
\* and Windows.
SupportedHosts ==
  { [os |-> "linux", x86_64 |-> TRUE],
    [os |-> "macos", x86_64 |-> TRUE],
    [os |-> "windows", x86_64 |-> TRUE] }

\* C4: on a host without prebuilt binaries the download strategy fails before
\* Cache::download is called: no run makes a download or a network call there,
\* and the run goes on to cargo_install_wasm_bindgen.
C4_UnsupportedNoNetwork ==
  \A p \in Procs :
    host \notin SupportedHosts =>
      /\ ~Contains(trace[p], "cache.download")
      /\ ~Contains(trace[p], "network")
      /\ ~Contains(trace[p], "downloaded")
      /\ Contains(trace[p], "prebuilt_url") =>
           \/ pc[p] \in {"cargo_install", "killed"}
           \/ Contains(trace[p], "destination.exists")

\* A run on such a host went through the download strategy to the source install.
C4_Witness ==
  /\ host \notin SupportedHosts
  /\ Contains(trace[Main], "prebuilt_url")
  /\ Contains(trace[Main], "destination.exists")
  /\ Finished(Main)

\* C5: without permission, with no destination in the cache, no matching global
\* binary and a host without prebuilt binaries, a run makes no call but which,
\* the version probe, prebuilt_url and destination.exists (no network, no cargo,
\* nothing removed, created or renamed), and ends with the not-installed error,
\* the destination still absent and nothing of this run in the staging directory.
C5_Preconditions(p) ==
  /\ pc[p] # "idle"
  /\ ~install_permitted[p]
  /\ ~local_at_start[p]
  /\ ~GlobalMatches(p)
  /\ host \notin SupportedHosts

C5_PermissionRequired ==
  \A p \in Procs :
    C5_Preconditions(p) =>
      /\ IsPrefix(trace[p],
                  (IF which_found THEN <<"which", "wasm-bindgen --version">>
                                  ELSE <<"which">>)
                    \o <<"prebuilt_url", "destination.exists">>)
      /\ ~fs[Destination(version[p])].exists
      /\ \A f \in Files : fs[Tmp(version[p])].files[f] # Owner(p)
      /\ Finished(p) =>
           /\ result[p] = Err(NotInstalled)
           /\ Contains(trace[p], "destination.exists")

\* Such a run, with a global binary whose probe does not match, has failed.
C5_Witness ==
  /\ C5_Preconditions(Main)
  /\ Finished(Main)
  /\ which_found
  /\ Probed(Main)
  /\ result[Main] = Err(NotInstalled)

\* C6: with the destination of version V in the cache, a run for V returns that
\* directory and never runs cargo, whatever install_permitted is.
C6_CachedReturned ==
  \A p \in Procs :
    (Finished(p) /\ local_at_start[p]) =>
      /\ result[p].kind = "ok"
      /\ result[p].root = Destination(version[p])
      /\ ~Contains(trace[p], "cargo install")

\* C7: a run with the arguments of a run before it that installed from source
\* returns the same directory, and makes no download and no cargo call.
C7_RerunIdempotent ==
  \A p \in Procs :
    ( /\ Finished(p)
      /\ prev[p].result.kind = "ok"
      /\ prev[p].result.via = "installed"
      /\ prev[p].version = version[p]
      /\ prev[p].install_permitted = install_permitted[p] ) =>
      /\ result[p] # NoResult
      /\ result[p].root = prev[p].result.root
      /\ ~Contains(trace[p], "cache.download")
      /\ ~Contains(trace[p], "cargo install")

\* C8: with one process, interrupted wherever, the destination of a version
\* is absent or holds all a finished cargo install leaves; it changes only in
\* the rename of the staging directory, made after cargo ended with success,
\* and it is never written in place.
C8_DestinationComplete ==
  \A v \in Versions :
    fs[Destination(v)].exists => Complete(fs[Destination(v)])

C8_OnlyByRename ==
  \A v \in Versions :
    fs'[Destination(v)] # fs[Destination(v)] =>
      \E p \in Procs :
        /\ pc[p] = "rename"
        /\ pc'[p] = "done"
        /\ version[p] = v
        /\ written[p] = Len(InstallFiles)
        /\ Contains(trace[p], "cargo install")
        /\ ~fs[Destination(v)].exists
        /\ fs'[Destination(v)] = fs[Tmp(v)]
        /\ ~fs'[Tmp(v)].exists

C8_AtomicDestination ==
  [](C8_DestinationComplete) /\ [][C8_OnlyByRename]_vars

\* After an interrupted run left files in the staging directory, a second run
\* installed from source.
C8_Witness ==
  /\ run[Main] = 2
  /\ prev[Main].result = Killed
  /\ Finished(Main)
  /\ result[Main].via = "installed"
  /\ fs[Destination(version[Main])] = Installed(Owner(Main))

\* C9: with processes installing the same version into the same cache at the
\* same time, no process is given a destination that exists without all the
\* files of a finished install.
C9_NoHalfWrittenSeen ==
  \A p \in Procs :
    (Finished(p) /\ result[p].kind = "ok") =>
      Complete(fs[Destination(version[p])])

\* C10: two processes in the source install at the same time use different
\* staging directories.
UsesStaging(p) == pc[p] \in {"remove_tmp", "create_tmp", "spawn", "cargo", "rename"}

C10_DistinctStaging ==
  \A p, q \in Procs :
    (p # q /\ UsesStaging(p) /\ UsesStaging(q)) =>
      Tmp(version[p]) # Tmp(version[q])


Count(calls, c) == Cardinality({i \in 1..Len(calls) : calls[i] = c})

\* C11: when the cargo of a run fails, the run ends there with the error of
\* the install: cargo was called once, nothing is renamed, and the destination
\* of the version is still absent.
C11_CargoFailureFatal ==
  \A p \in Procs :
    Contains(trace[p], "cargo install failed") =>
      /\ Finished(p)
      /\ result[p] = Err(CargoFailed)
      /\ trace[p][Len(trace[p])] = "cargo install failed"
      /\ Count(trace[p], "cargo install") = 1
      /\ ~Contains(trace[p], "rename")
      /\ ~fs[Destination(version[p])].exists

\* A cargo that had written one binary failed.
C11_Witness ==
  /\ Contains(trace[Main], "cargo install failed")
  /\ written[Main] = 1
  /\ fs[Tmp(version[Main])].files[InstallFiles[1]] = Owner(Main)
  /\ result[Main] = Err(CargoFailed)


\* C12: a run that returns an error has attempted every strategy, and the
\* error is one of cargo_install_wasm_bindgen (not installed, create_dir_all,
\* cargo, rename), never that of the version probe or of the download.
SourceInstallErrors == {NotInstalled, CreateFailed, CargoFailed, RenameFailed}

C12_OnlyLastErrorSurfaces ==
  \A p \in Procs :
    (Finished(p) /\ result[p].kind = "err") =>
      /\ StrategyCalls(p) = StrategyOrder
      /\ result[p].via \in SourceInstallErrors
      /\ result[p].via = NotInstalled =>
           /\ ~install_permitted[p]
           /\ trace[p][Len(trace[p])] = "destination.exists"
      /\ result[p].via # NotInstalled =>
           trace[p][Len(trace[p])] \in {"io error", "cargo install failed", "rename"}

\* The probe failed, the download failed, and the error returned is cargo's.
C12_Witness ==
  /\ Finished(Main)
  /\ Probed(Main)
  /\ ~probe.ok
  /\ Contains(trace[Main], "network")
  /\ ~Contains(trace[Main], "downloaded")
  /\ result[Main] = Err(CargoFailed)


\* C13: a run whose global binary matches returns the directory that holds
\* the binary, which is no directory of the cache, and leaves every directory
\* of the cache as it was when the run started.
C13_GlobalReuseNoCaching ==
  \A p \in Procs :
    ProbeMatched(p) =>
      /\ result[p].kind = "ok"
      /\ result[p].root = Parent(GlobalBin)
      /\ result[p].root \o <<"wasm-bindgen">> = GlobalBin
      /\ result[p].root \notin CachePaths
      /\ fs = fs_at_start[p]

\* The global binary matched version "74", of which the cache holds nothing.
C13_Witness ==
  /\ ProbeMatched(Main)
  /\ Finished(Main)
  /\ version[Main] = VB
  /\ ~fs[Destination(VB)].exists
  /\ ~fs[Tmp(VB)].exists


\* C14 as stated: wasm_bindgen_build on a directory without the wasm-bindgen
\* binary fails with an error of its own, tool not found, and never calls the
\* subprocess runner.
ToolNotFoundInHandle == "tool-not-found-in-handle"

TargetFlags == {"--nodejs", "--no-modules", "--browser"}

\* The options of an argument list: all but the artifact and the value of --out-dir.
Options(args) == {i \in 1..Len(args) : i \notin {1, 3}}

C15_ArgumentList ==
  build.pc \in {"run", "done"} =>
    LET args == build.cmd.args
        given == {args[i] : i \in Options(args)}
    IN /\ args[2] = "--out-dir"
       /\ args[3] = build.out_dir
       /\ Cardinality({i \in Options(args) : args[i] \in TargetFlags}) = 1
       /\ build.target = "nodejs" => "--nodejs" \in given
       /\ build.target = "no-modules" => "--no-modules" \in given
       /\ build.target \notin {"nodejs", "no-modules"} => "--browser" \in given
       /\ "--debug" \in given <=> build.debug

\* A target the match does not name, with debug, and an output directory
\* named like a flag.
C15_Witness ==
  /\ build.pc = "done"
  /\ build.target = "bundler"
  /\ build.debug
  /\ build.out_dir = "--nodejs"
  /\ build.cmd.args[5] = "--browser"
  /\ Len(build.cmd.args) = 6


\* C16: wasm_bindgen_version_check gives true exactly when the run of the
\* binary succeeded and the second whitespace-delimited token of its output is
\* the wanted version; with fewer than two tokens, or a run that failed (a
\* missing binary, a non-zero exit), it gives false, and it always gives a
\* boolean.
Whitespace == {" ", "\n", "\t"}

\* s[i..j] is a maximal run of characters that are not whitespace.
IsTokenAt(s, i, j) ==
  /\ i <= j
  /\ \A k \in i..j : s[k] \notin Whitespace
  /\ i = 1 \/ s[i - 1] \in Whitespace
  /\ j = Len(s) \/ s[j + 1] \in Whitespace

TokenStarts(s) == {i \in 1..Len(s) : \E j \in i..Len(s) : IsTokenAt(s, i, j)}

SecondTokenIs(s, v) ==
  \E i \in 1..Len(s) : \E j \in i..Len(s) :
    /\ IsTokenAt(s, i, j)
    /\ Cardinality({k \in TokenStarts(s) : k < i}) = 1
    /\ SubSeq(s, i, j) = v

C16_VersionProbe ==
  check.pc = "done" =>
    /\ check.result \in BOOLEAN
    /\ check.result <=>
         (check.ran.ok /\ SecondTokenIs(check.ran.stdout, check.dep_version))
    /\ ~check.ran.ok => ~check.result
    /\ Cardinality(TokenStarts(check.ran.stdout)) < 2 => ~check.result

\* An output with blanks before the name and a tab before the version matches.
C16_Witness ==
  /\ check.pc = "done"
  /\ check.ran = RunOk(<<" ", "w", "\t", "7">>)
  /\ check.dep_version = VA
  /\ check.result


\* C17: when the cargo of a run starts, the staging directory is empty, what
\* an earlier attempt left having been cleared in this run; and the destination
\* a run installs holds no file but those its own cargo wrote.
C17_StaleStagingCleared ==
  \A p \in Procs :
    /\ (pc[p] = "cargo" /\ written[p] = 0) =>
         IsEmptyDir(fs[Tmp(version[p])])
    /\ (Finished(p) /\ result[p].via = "installed") =>
         \A f \in Files :
           fs[Destination(version[p])].files[f] \in {NoFile, Owner(p)}


\* C18: a run without permission never calls cargo and removes, creates and
\* renames nothing: the staging directory and the destination of every version
\* are as they were when the run started, and the run ends with the destination
\* that was there or with the not-installed error.
SourceInstallCalls == {"remove_dir_all", "create_dir_all", "cargo install", "rename"}

C18_NotPermittedFrame ==
  \A p \in Procs :
    (pc[p] # "idle" /\ ~install_permitted[p]) =>
      /\ \A i \in 1..Len(trace[p]) : trace[p][i] \notin SourceInstallCalls
      /\ \A v \in Versions :
           /\ fs[Tmp(v)] = fs_at_start[p][Tmp(v)]
           /\ fs[Destination(v)] = fs_at_start[p][Destination(v)]
      /\ (Finished(p) /\ Contains(trace[p], "destination.exists")) =>
           result[p] = IF fs_at_start[p][Destination(version[p])].exists
                         THEN Ok(Destination(version[p]), "cached")
                         ELSE Err(NotInstalled)

\* A run without permission failed and left the stale staging directory alone.
C18_Witness ==
  /\ Finished(Main)
  /\ ~install_permitted[Main]
  /\ version[Main] = VA
  /\ result[Main] = Err(NotInstalled)
  /\ fs[Tmp(VA)] = StaleDir


\* C19: when install is permitted, cargo succeeds every time and no file
\* operation fails of its own accord, every one of the concurrent source
\* installs of one version returns the destination successfully.
C19_ConcurrentInstallsSucceed ==
  \A p \in Procs :
    ( /\ Finished(p)
      /\ install_permitted[p]
      /\ ~Contains(trace[p], "cargo install failed")
      /\ ~Contains(trace[p], "io error") ) =>
        /\ result[p].kind = "ok"
        /\ result[p].root = Destination(version[p])


\* C20: the four outcomes of a run, told from what it returned.
ReusedGlobal(p) == result[p].kind = "ok" /\ result[p].root = Parent(GlobalBin)
Downloaded(p) ==
  result[p].kind = "ok" /\ \E u \in Urls : result[p].root = DownloadDir(u)
BuiltFromSource(p) ==
  result[p].kind = "ok" /\ result[p].root = Destination(version[p])
Failed(p) == result[p].kind = "err"

Outcomes(p) ==
  {o \in {"ReusedGlobal", "Downloaded", "BuiltFromSource", "Failed"} :
     \/ o = "ReusedGlobal" /\ ReusedGlobal(p)
     \/ o = "Downloaded" /\ Downloaded(p)
     \/ o = "BuiltFromSource" /\ BuiltFromSource(p)
     \/ o = "Failed" /\ Failed(p)}

Running(p) == pc[p] \notin {"idle", "done", "killed"}

\* Within a run the probe, the download and cargo are each called at most
\* once; a finished run has exactly one outcome, and a destination it returns
\* exists.
C20_OnceAndOneOutcome ==
  \A p \in Procs :
    /\ Count(trace[p], "wasm-bindgen --version") <= 1
    /\ Count(trace[p], "cache.download") <= 1
    /\ Count(trace[p], "cargo install") <= 1
    /\ Running(p) => result[p] = NoResult
    /\ Finished(p) =>
         /\ Cardinality(Outcomes(p)) = 1
         /\ BuiltFromSource(p) => fs[result[p].root].exists

\* C20: every run whose calls return ends with exactly one of the outcomes
\* ReusedGlobal, Downloaded, BuiltFromSource and Failed; the probe, the
\* download and cargo are each called at most once in it; and the destination
\* a BuiltFromSource run returns exists when it returns.
C20_TerminatesWithOneOutcome ==
  /\ [] C20_OnceAndOneOutcome
  /\ \A p \in Procs : Running(p) ~> Finished(p)

\* A run went through the probe, the download and cargo, and ended
\* BuiltFromSource by its rename.
C20_Witness ==
  /\ Finished(Main)
  /\ BuiltFromSource(Main)
  /\ Contains(trace[Main], "wasm-bindgen --version")
  /\ Contains(trace[Main], "cache.download")
  /\ Contains(trace[Main], "cargo install")
  /\ Contains(trace[Main], "rename")

====
